---------------------------- MODULE Spec2Model ----------------------------
(***************************************************************************)
(* Student-mentor batch assignment engine.                                 *)
(*                                                                         *)
(* State: the caller's collections (students, mentors, new_students), the  *)
(* configuration object, and the frame of the engine call in progress      *)
(* (AssignmentService.assign_students_to_mentors / add_new_students).      *)
(* Student and Mentor objects are mutated in place by the engine; a list   *)
(* position stands for the identity of the object it holds.                *)
(***************************************************************************)
EXTENDS Integers, Sequences, FiniteSets, TLC

(***************************************************************************)
(* Bounds of the explored inputs.                                          *)
(***************************************************************************)
MaxStudents == 5
MaxMentors == 2
MaxNew == 2

(***************************************************************************)
(* Program constants (utils/config.py, models/mentor.py).                  *)
(***************************************************************************)
BATCH_SIZE == 30
remainder_threshold == 12
min_roll_number == 1
max_roll_number == 9999
default_max_students == 30

None == "None"

valid_years == {1, 2, 3, 4}

\* Config.ASSIGNMENT_RULES together with Config.BATCH_SIZE
DefaultConfig ==
    [ BATCH_SIZE |-> BATCH_SIZE,
      allow_mentor_overload |-> TRUE,
      sort_by_roll_number |-> TRUE,
      wrap_around_mentors |-> FALSE,
      remainder_threshold |-> remainder_threshold ]

(***************************************************************************)
(* Sequence helpers (Python list operations).                              *)
(***************************************************************************)
Range(s) == { s[i] : i \in DOMAIN s }

\* s[a:b] with 0-based, half-open Python indices
Slice(s, a, b) == SubSeq(s, a + 1, IF b < Len(s) THEN b ELSE Len(s))

Min2(a, b) == IF a < b THEN a ELSE b

Max2(a, b) == IF a > b THEN a ELSE b

RECURSIVE SumSeq(_)
SumSeq(s) == IF s = <<>> THEN 0 ELSE Head(s) + SumSeq(Tail(s))

\* Variant: only neighbours are compared
HasDuplicates_Adjacent(s) == \E i \in 1..(Len(s) - 1) : s[i] = s[i + 1]

\* len(xs) != len(set(xs))
HasDuplicates(s) == Cardinality(Range(s)) # Len(s)

\* list.extend / list.append keep order
Extend(s, t) == s \o t

(***************************************************************************)
(* Entity model.                                                           *)
(***************************************************************************)
\* models/student.py: Student
Student(roll, branch, email) ==
    [ roll_no |-> roll, name |-> "Student", branch |-> branch, year |-> 1,
      email |-> email, phone |-> None, assigned_mentor_id |-> None ]

\* models/mentor.py: Mentor (assigned_students defaults to [])
Mentor(fid, department, availability, max_students) ==
    [ faculty_id |-> fid, name |-> "Dr. Mentor", department |-> department,
      email |-> None, phone |-> None,
      availability |-> availability, max_students |-> max_students,
      assigned_students |-> <<>> ]

\* Mentor.get_student_count
get_student_count(m) == Len(m.assigned_students)

\* Mentor.can_accept_students(count=1)
can_accept_students(m) ==
    m.availability /\ get_student_count(m) + 1 <= m.max_students

\* Mentor.get_available_slots
get_available_slots(m) == Max2(0, m.max_students - get_student_count(m))

\* Mentor.assign_student past its capacity guard: append unless present
assign_student(m, roll) ==
    IF roll \in Range(m.assigned_students)
    THEN m
    ELSE [m EXCEPT !.assigned_students = Append(@, roll)]

\* Variant: the batch number is the 0-based loop index
Assignment_ZeroBased(mentor_id, rolls, batch_number) ==
    [ mentor_id |-> mentor_id, student_roll_numbers |-> rolls,
      batch_number |-> batch_number - 1 ]

\* models/assignment.py: Assignment (assignment_date and notes left out)
Assignment(mentor_id, rolls, batch_number) ==
    [ mentor_id |-> mentor_id, student_roll_numbers |-> rolls,
      batch_number |-> batch_number ]

(***************************************************************************)
(* Validators (utils/validators.py).  Strings are drawn from a small       *)
(* sample; the two regular-expression tests are tabulated on it.           *)
(***************************************************************************)
\* str.strip() on the sample strings
Strip(s) == IF s = " " THEN "" ELSE s

\* re.match of the address pattern of validate_email
EmailPatternMatches(s) == s \in {"john@example.com"}

\* len(re.sub(r'\D', '', phone))
DigitCount(s) ==
    CASE s = "1234567890" -> 10
      [] s = "12345" -> 5
      [] OTHER -> 0

\* "not x" for a string field (None or empty) and for an integer field
Falsy(x) == x = None \/ x = ""

FalsyInt(x) == x = 0

validate_roll_number(roll_no) ==
    min_roll_number <= roll_no /\ roll_no <= max_roll_number

validate_year(year) == year \in valid_years

validate_email(email) == Falsy(email) \/ EmailPatternMatches(email)

validate_phone(phone) ==
    Falsy(phone) \/ (10 <= DigitCount(phone) /\ DigitCount(phone) <= 15)

\* The i-th conditional append of a validator: <<message>> or nothing
ErrIf(cond, msg) == IF cond THEN <<msg>> ELSE <<>>

\* StudentValidator.validate_student on Student.to_dict(): the error list
validate_student(d) ==
    LET missing ==
            ErrIf(FalsyInt(d.roll_no), "Missing required field: roll_no")
         \o ErrIf(Falsy(d.name), "Missing required field: name")
         \o ErrIf(Falsy(d.branch), "Missing required field: branch")
         \o ErrIf(FalsyInt(d.year), "Missing required field: year")
    IN  IF missing # <<>>
        THEN missing
        ELSE   ErrIf(~validate_roll_number(d.roll_no), "Roll number is out of valid range")
            \o ErrIf(~validate_year(d.year), "Year is not valid")
            \o ErrIf(Strip(d.name) = "", "Student name cannot be empty")
            \o ErrIf(~Falsy(d.email) /\ ~validate_email(d.email), "Invalid email format")
            \o ErrIf(~Falsy(d.phone) /\ ~validate_phone(d.phone), "Invalid phone number format")

\* MentorValidator.validate_mentor on Mentor.to_dict(): the error list
validate_mentor(d) ==
    LET missing ==
            ErrIf(Falsy(d.faculty_id), "Missing required field: faculty_id")
         \o ErrIf(Falsy(d.name), "Missing required field: name")
         \o ErrIf(Falsy(d.department), "Missing required field: department")
    IN  IF missing # <<>>
        THEN missing
        ELSE   ErrIf(Strip(d.faculty_id) = "", "Faculty ID cannot be empty")
            \o ErrIf(Strip(d.name) = "", "Mentor name cannot be empty")
            \o ErrIf(Strip(d.department) = "", "Department cannot be empty")
            \o ErrIf(~Falsy(d.email) /\ ~validate_email(d.email), "Invalid email format")
            \o ErrIf(~Falsy(d.phone) /\ ~validate_phone(d.phone), "Invalid phone number format")
            \o ErrIf(d.max_students <= 0, "Max students must be positive")

\* [m for m in mentors if m.availability], as positions in the mentor list
RECURSIVE AvailableFrom(_, _)
AvailableFrom(ms, i) ==
    IF i > Len(ms) THEN <<>>
    ELSE (IF ms[i].availability THEN <<i>> ELSE <<>>) \o AvailableFrom(ms, i + 1)

AvailableMentors(ms) == AvailableFrom(ms, 1)

\* sum(m.max_students for m in mentors if m.availability)
TotalCapacity(ms) ==
    SumSeq([k \in 1..Len(AvailableMentors(ms)) |->
                ms[AvailableMentors(ms)[k]].max_students])

\* Variant: the batch count is rounded down
BatchesNeeded_Floor(n, c) == n \div c.BATCH_SIZE

\* (total_students + BATCH_SIZE - 1) // BATCH_SIZE
BatchesNeeded(n, c) == (n + c.BATCH_SIZE - 1) \div c.BATCH_SIZE

NotEnoughCapacity == "Not enough mentor capacity"

CapacityWarning == "Some mentors will exceed normal capacity"

NotEnoughMentors == "Not enough mentors for batch assignment"

\* The capacity check of validate_assignment_feasibility: <<errors, warnings>>
CapacityCheck(ss, ms, c) ==
    IF Len(ss) > TotalCapacity(ms)
    THEN IF ~c.allow_mentor_overload
         THEN << <<NotEnoughCapacity>>, <<>> >>
         ELSE << <<>>, <<CapacityWarning>> >>
    ELSE << <<>>, <<>> >>

\* Variant: the batch count is not checked against the mentors
MentorCountCheck_Skipped(ss, ms, c) == <<>>

\* The batch-count check of validate_assignment_feasibility: errors
MentorCountCheck(ss, ms, c) ==
    ErrIf(BatchesNeeded(Len(ss), c) > Len(AvailableMentors(ms))
            /\ ~c.wrap_around_mentors,
          NotEnoughMentors)

\* AssignmentValidator.validate_assignment_feasibility: [ok, errors, warnings];
\* the function returns (ok, errors + warnings)
validate_assignment_feasibility(ss, ms, c) ==
    LET empties ==
            ErrIf(ss = <<>>, "No students to assign")
         \o ErrIf(ms = <<>>, "No mentors available")
    IN  IF empties # <<>>
        THEN [ok |-> FALSE, errors |-> empties, warnings |-> <<>>]
        ELSE LET errors ==
                    ErrIf(HasDuplicates([i \in DOMAIN ss |-> ss[i].roll_no]),
                          "Duplicate roll numbers found in student list")
                 \o ErrIf(HasDuplicates([i \in DOMAIN ms |-> ms[i].faculty_id]),
                          "Duplicate faculty IDs found in mentor list")
                 \o CapacityCheck(ss, ms, c)[1]
                 \o MentorCountCheck(ss, ms, c)
             IN  [ok |-> errors = <<>>, errors |-> errors,
                  warnings |-> CapacityCheck(ss, ms, c)[2]]

\* The per-record issues of validate_data_consistency, prefixed by the entity
RECURSIVE StudentIssues(_, _)
StudentIssues(ss, i) ==
    IF i > Len(ss) THEN <<>>
    ELSE [k \in DOMAIN validate_student(ss[i]) |->
            <<"Student", ss[i].roll_no, validate_student(ss[i])[k]>>]
         \o StudentIssues(ss, i + 1)

RECURSIVE MentorIssues(_, _)
MentorIssues(ms, i) ==
    IF i > Len(ms) THEN <<>>
    ELSE [k \in DOMAIN validate_mentor(ms[i]) |->
            <<"Mentor", ms[i].faculty_id, validate_mentor(ms[i])[k]>>]
         \o MentorIssues(ms, i + 1)

\* Variant: the issues are collected but do not decide the verdict
ConsistencyVerdict_IgnoresIssues(all_issues) == TRUE

\* What validate_data_consistency reports as valid: no issue of any kind
ConsistencyVerdict(all_issues) == Len(all_issues) = 0

\* validate_data_consistency: [ok, issues]
validate_data_consistency(ss, ms, c) ==
    LET f == validate_assignment_feasibility(ss, ms, c)
        all_issues == StudentIssues(ss, 1) \o MentorIssues(ms, 1)
                        \o f.errors \o f.warnings
    IN  [ok |-> ConsistencyVerdict(all_issues), issues |-> all_issues]

(***************************************************************************)
(* Inputs: the collections the caller loads and the configuration.         *)
(***************************************************************************)
FacultyIds == <<"FAC001", "FAC002", "FAC003", "FAC004">>

BatchSizes == {2, 3}

Thresholds == {0, 1}

Capacities == {1, 2, 3}

\* Config with update_batch_size applied and the rules set by the caller
Configs ==
    [ BATCH_SIZE : BatchSizes,
      allow_mentor_overload : BOOLEAN,
      sort_by_roll_number : BOOLEAN,
      wrap_around_mentors : BOOLEAN,
      remainder_threshold : Thresholds ] \cup {DefaultConfig}

Ascending(n) == [i \in 1..n |-> Student(i, "CSE", None)]

Descending(n) == [i \in 1..n |-> Student(n + 1 - i, "CSE", None)]

\* the last student repeats the first one's roll number
WithDuplicate(n) == [i \in 1..n |-> Student(IF i = n THEN 1 ELSE i, "CSE", None)]

\* the first student has an empty branch / a malformed email
WithDefect(n, branch, email) ==
    [i \in 1..n |-> IF i = 1 THEN Student(i, branch, email) ELSE Student(i, "CSE", None)]

\* the first student has no branch, a roll number above the range and a
\* year outside valid_years, all at once
WithManyDefects(n) ==
    [i \in 1..n |->
        IF i = 1
        THEN [Student(max_roll_number + 1, "", None) EXCEPT !.year = 5]
        ELSE Student(i, "CSE", None)]

\* students loaded with the mentor of an earlier session
WithPriorMentor(n) ==
    [i \in 1..n |-> [Student(i, "CSE", None) EXCEPT !.assigned_mentor_id = FacultyIds[1]]]

StudentLists ==
    { Ascending(n) : n \in 0..MaxStudents }
      \cup { Descending(n) : n \in 2..MaxStudents }
      \cup { WithDuplicate(n) : n \in {2, MaxStudents} }
      \cup { WithDefect(n, "", None) : n \in {1, MaxStudents} }
      \cup { WithDefect(n, "CSE", "not-an-email") : n \in {1, MaxStudents} }
      \cup { WithManyDefects(n) : n \in {1, MaxStudents} }
      \cup { WithPriorMentor(n) : n \in {2, MaxStudents} }

\* mentors with distinct ids and a department
SoundMentorLists ==
    UNION { { [i \in 1..m |-> Mentor(FacultyIds[i], "Computer Science", av[i], cap[i])] :
                av \in [1..m -> BOOLEAN], cap \in [1..m -> Capacities] } :
            m \in 0..MaxMentors }

\* ... and lists in which every mentor has the same id, or no department
\* mentors loaded with the students of an earlier session
WithPriorStudents(m, cap) ==
    [i \in 1..m |->
        [Mentor(FacultyIds[i], "Computer Science", TRUE, cap)
            EXCEPT !.assigned_students = <<i, m + i>>]]

\* ... the last of them no longer available
WithPriorStudentsAway(m, cap) ==
    [WithPriorStudents(m, cap) EXCEPT ![m].availability = FALSE]

MentorLists ==
    SoundMentorLists
      \cup { WithPriorStudents(m, cap) : m \in 1..MaxMentors, cap \in Capacities }
      \cup { WithPriorStudentsAway(m, cap) : m \in 2..MaxMentors, cap \in Capacities }
      \cup { [i \in 1..m |-> Mentor(FacultyIds[1], "Computer Science", TRUE, default_max_students)] :
                m \in 2..MaxMentors }
      \cup { [i \in 1..m |-> Mentor(FacultyIds[i], "", TRUE, default_max_students)] :
                m \in 1..MaxMentors }

\* The new_students lists a caller passes to add_new_students, given the
\* existing students: none, fresh roll numbers in either order, a roll number that
\* an existing student has (first or last), the same new roll number twice
MaxRoll(ss) == IF ss = <<>> THEN 0 ELSE CHOOSE r \in { ss[i].roll_no : i \in DOMAIN ss } :
                                            \A i \in DOMAIN ss : ss[i].roll_no <= r

NewStudentLists(ss) ==
    LET base == MaxRoll(ss)
    IN  { [i \in 1..k |-> Student(base + i, "CSE", None)] : k \in 0..MaxNew }
          \cup { [i \in 1..k |-> Student(base + k + 1 - i, "CSE", None)] : k \in 2..MaxNew }
          \cup { [i \in 1..k |-> Student(IF i = 1 THEN base + 1 ELSE base + i - 1, "CSE", None)] :
                    k \in 2..MaxNew }
          \cup (IF ss = <<>> THEN {}
                ELSE { [i \in 1..k |-> Student(IF i = k THEN ss[1].roll_no ELSE base + i,
                                               "CSE", None)] : k \in 1..MaxNew }
                     \cup { [i \in 1..k |-> Student(IF i = 1 THEN ss[Len(ss)].roll_no
                                                              ELSE base + i, "CSE", None)] :
                               k \in 2..MaxNew })

\* Runs with fewer mentors than batches, each mentor large enough for the
\* capacity check to pass: the cursor wraps around when wrap_around_mentors
\* is on, and only the batch-count check stands in the way when it is off
WrapSizes == {4, 7}

WrapCapacities == {3, 4, 7}

WrapMentorLists ==
    UNION { { [i \in 1..m |-> Mentor(FacultyIds[i], "Computer Science", TRUE, cap[i])] :
                cap \in [1..m -> WrapCapacities] } :
            m \in {1, 2} }

\* The sizes of tests/test_assignment_system.py and of the documented examples
ScenarioSizes == {64, 73, 100}

ScenarioMentorCounts == {1, 3}

ScenarioMentors(m) ==
    [i \in 1..m |-> Mentor(FacultyIds[i], "Computer Science", TRUE, default_max_students)]

(***************************************************************************)
(* State.                                                                  *)
(***************************************************************************)
VARIABLES
    cfg,                  \* utils.config.config
    students,             \* the caller's student list
    mentors,              \* the caller's mentor list
    new_students,         \* the caller's list of students to add
    plan,                 \* the engine calls the caller still makes
    pc,                   \* position of the call in progress
    op,                   \* the engine operation called last
    pre,                  \* the collections as they were when it was called
    order,                \* the local student list, as positions in the caller's
    available_mentors,    \* positions of the mentors the call works with
    assignments,          \* Assignment objects created so far
    unassigned_students,  \* positions of the students left unassigned
    batch_num,            \* loop variable of the batch loop
    current_mentor_index, \* cursor into available_mentors (0-based)
    candidates,           \* add_new_students: <<mentor position, available slots>>
    assigned_students,    \* add_new_students: positions of the students assigned
    all_students,         \* add_new_students: the student collection returned
    summary,              \* <<the AssignmentSummary returned>>, or <<>>
    error,                \* <<the exception raised>>, or <<>>
    stats,                \* what get_assignment_statistics returned, per call
    earlier,              \* <<the outcome of the run made before>>, or <<>>
    mentor_to_remove      \* reassign_students: the faculty_id passed, or None

vars == << cfg, students, mentors, new_students, plan, pc, op, pre, order,
           available_mentors, assignments, unassigned_students, batch_num,
           current_mentor_index, candidates, assigned_students, all_students,
           summary, error, stats, earlier, mentor_to_remove >>

add_frame == << candidates, assigned_students, all_students >>

Snapshot(ss, ms, ns) == [students |-> ss, mentors |-> ms, new_students |-> ns]

InitFrame ==
    /\ new_students = <<>>
    /\ pc = "idle"
    /\ op = None
    /\ pre = <<>>
    /\ order = <<>>
    /\ available_mentors = <<>>
    /\ assignments = <<>>
    /\ unassigned_students = <<>>
    /\ batch_num = 0
    /\ current_mentor_index = 0
    /\ candidates = <<>>
    /\ assigned_students = <<>>
    /\ all_students = <<>>
    /\ summary = <<>>
    /\ error = <<>>
    /\ stats = <<>>
    /\ earlier = <<>>
    /\ mentor_to_remove = None

\* One assignment run over any of the inputs; an assignment run followed by
\* add_new_students (main.py: run_assignment, add_new_students_interactive)
\* over the well-formed ones; the documented examples under the defaults.
\* the same run made twice, each on freshly built collections
RunTwice == <<"assign_students_to_mentors", "setUp", "assign_students_to_mentors">>

\* a run over the students, then one over the first few of them
RunOnSublist == <<"assign_students_to_mentors", "sublist", "assign_students_to_mentors">>

\* a run, then reassign_students on its result
RunThenReassign == <<"assign_students_to_mentors", "reassign_students">>

InitData ==
    \/ /\ cfg \in Configs
       /\ students \in StudentLists
       /\ mentors \in MentorLists
       /\ plan = <<"assign_students_to_mentors">>
    \/ /\ cfg \in { c \in Configs : ~c.wrap_around_mentors }
       /\ students \in { Ascending(n) : n \in 0..MaxStudents }
       /\ mentors \in SoundMentorLists
                        \cup { WithPriorStudentsAway(m, cap) :
                                  m \in 2..MaxMentors, cap \in Capacities }
       /\ plan \in { <<"assign_students_to_mentors", "add_new_students">>, RunTwice }
    \/ /\ cfg \in { c \in Configs : ~c.wrap_around_mentors /\ c.sort_by_roll_number }
       /\ students \in { Ascending(n) : n \in 1..MaxStudents }
       /\ mentors \in SoundMentorLists
       /\ plan \in { RunOnSublist, RunThenReassign }
    \/ /\ cfg \in Configs
       /\ students \in { Ascending(n) : n \in WrapSizes }
       /\ mentors \in WrapMentorLists
       /\ plan \in IF cfg.wrap_around_mentors
                   THEN { <<"assign_students_to_mentors">>, RunTwice }
                   ELSE { <<"assign_students_to_mentors">> }
    \/ /\ cfg = DefaultConfig
       /\ students \in { Ascending(n) : n \in ScenarioSizes }
       /\ mentors \in { ScenarioMentors(m) : m \in ScenarioMentorCounts }
       /\ plan \in { <<"assign_students_to_mentors">>,
                     <<"assign_students_to_mentors", "add_new_students">>, RunTwice,
                     RunOnSublist, RunThenReassign }

Init == InitData /\ InitFrame

(***************************************************************************)
(* assign_students_to_mentors                                              *)
(***************************************************************************)
\* sorted(students, key=lambda s: s.roll_no), as positions: a stable sort
\* puts position i after the positions with a smaller roll number and after
\* the earlier positions with the same one
RollRank(ss, i) ==
    1 + Cardinality({ j \in DOMAIN ss :
                        \/ ss[j].roll_no < ss[i].roll_no
                        \/ ss[j].roll_no = ss[i].roll_no /\ j < i })

\* Variant: the students are left in the order given
SortedByRoll_InputOrder(ss) == [k \in 1..Len(ss) |-> k]

SortedByRoll(ss) ==
    [k \in 1..Len(ss) |-> CHOOSE i \in DOMAIN ss : RollRank(ss, i) = k]

Identity(ss) == [i \in 1..Len(ss) |-> i]

\* [s.roll_no for s in <the students at positions idx>]
RollNumbers(ss, idx) == [k \in 1..Len(idx) |-> ss[idx[k]].roll_no]

\* Variant: the first student of the batch is not marked
SetMentorId_SkipsFirst(ss, idx, fid) ==
    [i \in 1..Len(ss) |->
        IF i \in Range(Tail(idx)) THEN [ss[i] EXCEPT !.assigned_mentor_id = fid]
        ELSE ss[i]]

\* for student in <positions idx>: student.assigned_mentor_id = fid
SetMentorId(ss, idx, fid) ==
    [i \in 1..Len(ss) |->
        IF i \in Range(idx) THEN [ss[i] EXCEPT !.assigned_mentor_id = fid] ELSE ss[i]]

\* Variant: the earlier assignments are kept
ResetAssignments_KeepsPrior(ms, avail) == ms

\* for mentor in available_mentors: mentor.assigned_students = []
ResetAssignments(ms, avail) ==
    [i \in 1..Len(ms) |->
        IF i \in Range(avail) THEN [ms[i] EXCEPT !.assigned_students = <<>>] ELSE ms[i]]

complete_batches == Len(order) \div cfg.BATCH_SIZE

remainder_students_count == Len(order) % cfg.BATCH_SIZE

\* students[start_idx:end_idx] of batch batch_num
BatchStudents(ord, b, size) == Slice(ord, b * size, b * size + size)

\* Variant: the remainder slice starts one student late
RemainderStudents_SkipsOne(ord, size) ==
    Slice(ord, (Len(ord) \div size) * size + 1, Len(ord))

\* students[complete_batches * batch_size:]
RemainderStudents(ord, size) == Slice(ord, (Len(ord) \div size) * size, Len(ord))

\* The Student objects at positions idx of list ss
Objects(ss, idx) == [k \in 1..Len(idx) |-> ss[idx[k]]]

\* _create_assignment_summary (created_date left out; the average is kept
\* as the fraction <<total assigned, number of assignments>>)
create_assignment_summary(student_list, ms, assigns, unassigned_list) ==
    LET total_assigned ==
            SumSeq([k \in 1..Len(assigns) |-> Len(assigns[k].student_roll_numbers)])
    IN  [ total_students |-> Len(student_list),
          total_mentors |-> Len(ms),
          total_assignments |-> Len(assigns),
          students_per_mentor_avg |->
              IF assigns # <<>> THEN <<total_assigned, Len(assigns)>> ELSE <<0, 1>>,
          unassigned_students |->
              [k \in 1..Len(unassigned_list) |-> unassigned_list[k].roll_no],
          assignments |-> assigns ]

\* The exceptions the engine raises; detail holds the issue list or the
\* identity named in the message
ValueError(message, detail) ==
    [type |-> "ValueError", message |-> message, detail |-> detail]

ValidationFailed(issues) == ValueError("Data validation failed", issues)

NoAvailableMentors == ValueError("No available mentors found", <<>>)

AlreadyExists(roll_no) == ValueError("Student with roll number already exists", <<roll_no>>)

CannotAccept(faculty_id) == ValueError("Mentor cannot accept more students", <<faculty_id>>)

\* Variant: the cursor is kept from one run to the next
FirstMentorIndex_Resumes(previous) == previous

\* Line 73: the cursor of a run starts at the first available mentor,
\* wherever the run before left it
FirstMentorIndex(previous) == 0

\* Lines 36-73, entered with the collections ss and ms: validation, sort,
\* mentor filter, reset, loop set-up
EnterAssignment(ss, ms) ==
    /\ summary' = <<>>
    /\ LET v == validate_data_consistency(ss, ms, cfg)
           avail == AvailableMentors(ms)
       IN  IF ~v.ok
           THEN /\ error' = <<ValidationFailed(v.issues)>>
                /\ pc' = "raised"
                /\ order' = <<>>
                /\ available_mentors' = <<>>
                /\ mentors' = ms
           ELSE IF avail = <<>>
           THEN /\ error' = <<NoAvailableMentors>>
                /\ pc' = "raised"
                /\ order' = <<>>
                /\ available_mentors' = <<>>
                /\ mentors' = ms
           ELSE /\ error' = <<>>
                /\ pc' = "batches"
                /\ order' = IF cfg.sort_by_roll_number
                            THEN SortedByRoll(ss) ELSE Identity(ss)
                /\ available_mentors' = avail
                /\ mentors' = ResetAssignments(ms, avail)
    /\ students' = ss
    /\ assignments' = <<>>
    /\ unassigned_students' = <<>>
    /\ batch_num' = 0
    /\ current_mentor_index' = FirstMentorIndex(current_mentor_index)
    /\ candidates' = <<>>
    /\ assigned_students' = <<>>
    /\ all_students' = <<>>
    /\ stats' = <<>>
    /\ UNCHANGED << cfg, new_students, earlier >>

\* The caller calls assign_students_to_mentors(students, mentors)
AssignBegin ==
    /\ pc \in {"idle", "done", "raised"}
    /\ plan # <<>>
    /\ Head(plan) = "assign_students_to_mentors"
    /\ plan' = Tail(plan)
    /\ op' = "assign_students_to_mentors"
    /\ pre' = <<Snapshot(students, mentors, new_students)>>
    /\ mentor_to_remove' = None
    /\ EnterAssignment(students, mentors)

\* Variant: the cursor is not reset at the end of the mentor list
BatchCursor_NoReset(cursor, n_avail, wrap) == cursor

\* The mentor the batch loop picks: the cursor, reset when wrap-around applies
BatchCursor(cursor, n_avail, wrap) ==
    IF cursor >= n_avail /\ wrap THEN 0 ELSE cursor

\* Lines 76-119: one iteration of the loop over the complete batches
BatchStep ==
    /\ pc = "batches"
    /\ batch_num < complete_batches
    /\ LET batch_students == BatchStudents(order, batch_num, cfg.BATCH_SIZE)
           cursor == BatchCursor(current_mentor_index, Len(available_mentors),
                                 cfg.wrap_around_mentors)
       IN  IF cursor >= Len(available_mentors)
           THEN \* no mentor left and no wrap-around: the batch is skipped
                /\ unassigned_students' = Extend(unassigned_students, batch_students)
                /\ UNCHANGED << students, mentors, assignments, current_mentor_index >>
           ELSE LET mi == available_mentors[cursor + 1]
                    student_roll_numbers == RollNumbers(students, batch_students)
                IN  /\ assignments' =
                          Append(assignments,
                                 Assignment(mentors[mi].faculty_id,
                                            student_roll_numbers, batch_num + 1))
                    /\ mentors' = [mentors EXCEPT ![mi].assigned_students =
                                        Extend(@, student_roll_numbers)]
                    /\ students' = SetMentorId(students, batch_students,
                                               mentors[mi].faculty_id)
                    /\ current_mentor_index' = cursor + 1
                    /\ UNCHANGED unassigned_students
    /\ batch_num' = batch_num + 1
    /\ UNCHANGED << cfg, new_students, plan, pc, op, pre, order,
                    available_mentors, summary, error, add_frame, stats, earlier,
                    mentor_to_remove >>

\* Variant: a remainder is never folded
RemainderFolds_Never(count, c) == FALSE

\* Variant: the threshold itself is not folded
RemainderFolds_Strict(count, c) == count < c.remainder_threshold

\* Line 128: a remainder this small is folded into the last assignment
RemainderFolds(count, c) == count <= c.remainder_threshold

\* Line 132: next(m for m in available_mentors if m.faculty_id == mentor_id)
MentorById(ms, avail, fid) ==
    avail[CHOOSE k \in 1..Len(avail) :
            /\ ms[avail[k]].faculty_id = fid
            /\ \A j \in 1..(k - 1) : ms[avail[j]].faculty_id # fid]

\* Lines 135-136: the fold is refused when it would exceed the capacity
FoldRefused(last_assignment, last_mentor, count, c) ==
    /\ Len(last_assignment.student_roll_numbers) + count > last_mentor.max_students
    /\ ~c.allow_mentor_overload

\* Variant: the last available mentor is never used for the remainder
MentorLeft_OffByOne(cursor, n_avail) == cursor < n_avail - 1

\* Line 164: a mentor is left at the cursor for the remainder batch
MentorLeft(cursor, n_avail) == cursor < n_avail

\* Lines 121-195: the remainder students, then the summary
HandleRemainder ==
    /\ pc = "batches"
    /\ batch_num = complete_batches
    /\ LET remainder_students == RemainderStudents(order, cfg.BATCH_SIZE)
           remainder_roll_numbers == RollNumbers(students, remainder_students)
           count == remainder_students_count
           last == Len(assignments)
       IN  IF count = 0
           THEN UNCHANGED << students, mentors, assignments, unassigned_students >>
           ELSE IF RemainderFolds(count, cfg)
           THEN IF assignments # <<>>
                THEN LET lm == MentorById(mentors, available_mentors,
                                          assignments[last].mentor_id)
                     IN  IF FoldRefused(assignments[last], mentors[lm], count, cfg)
                         THEN /\ unassigned_students' =
                                    Extend(unassigned_students, remainder_students)
                              /\ UNCHANGED << students, mentors, assignments >>
                         ELSE /\ assignments' =
                                    [assignments EXCEPT ![last].student_roll_numbers =
                                        Extend(@, remainder_roll_numbers)]
                              /\ mentors' = [mentors EXCEPT ![lm].assigned_students =
                                                Extend(@, remainder_roll_numbers)]
                              /\ students' = SetMentorId(students, remainder_students,
                                                         mentors[lm].faculty_id)
                              /\ UNCHANGED unassigned_students
                ELSE /\ unassigned_students' =
                            Extend(unassigned_students, remainder_students)
                     /\ UNCHANGED << students, mentors, assignments >>
           ELSE IF MentorLeft(current_mentor_index, Len(available_mentors))
                THEN LET mi == available_mentors[current_mentor_index + 1]
                     IN  /\ assignments' =
                                Append(assignments,
                                       Assignment(mentors[mi].faculty_id,
                                                  remainder_roll_numbers,
                                                  complete_batches + 1))
                         /\ mentors' = [mentors EXCEPT ![mi].assigned_students =
                                            Extend(@, remainder_roll_numbers)]
                         /\ students' = SetMentorId(students, remainder_students,
                                                    mentors[mi].faculty_id)
                         /\ UNCHANGED unassigned_students
                ELSE /\ unassigned_students' =
                            Extend(unassigned_students, remainder_students)
                     /\ UNCHANGED << students, mentors, assignments >>
    /\ summary' = <<create_assignment_summary(Objects(students', order), mentors',
                                              assignments',
                                              Objects(students', unassigned_students'))>>
    /\ pc' = "done"
    /\ UNCHANGED << cfg, new_students, plan, op, pre, order, available_mentors,
                    batch_num, current_mentor_index, error, add_frame, stats,
                    earlier, mentor_to_remove >>

\* What a finished assign_students_to_mentors call produced
Outcome ==
    [ given |-> pre[1],
      raised |-> pc = "raised",
      assignments |-> assignments,
      unassigned |-> RollNumbers(students, unassigned_students) ]

(***************************************************************************)
(* add_new_students                                                        *)
(***************************************************************************)
\* Variant: only the first new student is checked against the existing ones
FirstCollision_HeadOnly(existing, ns) ==
    IF ns # <<>> /\ \E j \in DOMAIN existing : existing[j].roll_no = ns[1].roll_no
    THEN 1 ELSE 0

\* Lines 245-247: the first new student, in list order, whose roll number an
\* existing student has; 0 when there is none
FirstCollision(existing, ns) ==
    LET hits == { i \in DOMAIN ns :
                    \E j \in DOMAIN existing : existing[j].roll_no = ns[i].roll_no }
    IN  IF hits = {} THEN 0 ELSE CHOOSE i \in hits : \A j \in hits : i <= j

\* Lines 254-257: (mentor, slots) of the available mentors with a free slot
RECURSIVE CandidatesFrom(_, _)
CandidatesFrom(ms, i) ==
    IF i > Len(ms) THEN <<>>
    ELSE (IF ms[i].availability /\ get_available_slots(ms[i]) > 0
          THEN << <<i, get_available_slots(ms[i])>> >> ELSE <<>>)
         \o CandidatesFrom(ms, i + 1)

\* Line 260: available_mentors.sort(key=lambda x: x[1]), stable
RECURSIVE InsertBySlots(_, _)
InsertBySlots(sorted, c) ==
    IF sorted = <<>> THEN <<c>>
    ELSE IF sorted[Len(sorted)][2] <= c[2]
         THEN Append(sorted, c)
         ELSE Append(InsertBySlots(SubSeq(sorted, 1, Len(sorted) - 1), c),
                     sorted[Len(sorted)])

\* Variant: the candidates stay in mentor-list order
SortBySlots_Unsorted(cs) == cs

RECURSIVE SortBySlots(_)
SortBySlots(cs) ==
    IF cs = <<>> THEN <<>>
    ELSE InsertBySlots(SortBySlots(SubSeq(cs, 1, Len(cs) - 1)), cs[Len(cs)])

\* Lines 273-276 and 289-292: for each student in turn, set its mentor id,
\* then Mentor.assign_student, which raises when the mentor cannot accept
\* one more; the loop stops at the exception
RECURSIVE AssignEach(_, _, _, _)
AssignEach(ns, m, todo, done) ==
    IF todo = <<>>
    THEN [new_students |-> ns, mentor |-> m, assigned |-> done, raised |-> FALSE]
    ELSE LET i == Head(todo)
             marked == [ns EXCEPT ![i].assigned_mentor_id = m.faculty_id]
         IN  IF ~can_accept_students(m)
             THEN [new_students |-> marked, mentor |-> m, assigned |-> done,
                   raised |-> TRUE]
             ELSE AssignEach(marked, assign_student(m, ns[i].roll_no),
                             Tail(todo), Append(done, i))

\* Lines 242-263: duplicate check, sort, candidate mentors
AddBegin ==
    /\ pc \in {"idle", "done", "raised"}
    /\ plan # <<>>
    /\ Head(plan) = "add_new_students"
    /\ plan' = Tail(plan)
    /\ op' = "add_new_students"
    /\ \E ns \in NewStudentLists(students) :
        /\ new_students' = ns
        /\ pre' = <<Snapshot(students, mentors, ns)>>
        /\ LET hit == FirstCollision(students, ns)
           IN  IF hit # 0
               THEN /\ error' = <<AlreadyExists(ns[hit].roll_no)>>
                    /\ pc' = "raised"
                    /\ order' = <<>>
                    /\ candidates' = <<>>
               ELSE /\ error' = <<>>
                    /\ pc' = "fill"
                    /\ order' = IF cfg.sort_by_roll_number
                                THEN SortedByRoll(ns) ELSE Identity(ns)
                    /\ candidates' = SortBySlots(CandidatesFrom(mentors, 1))
    /\ unassigned_students' = order'
    /\ assigned_students' = <<>>
    /\ all_students' = <<>>
    /\ summary' = <<>>
    /\ available_mentors' = <<>>
    /\ assignments' = <<>>
    /\ batch_num' = 0
    /\ current_mentor_index' = 0
    /\ stats' = <<>>
    /\ earlier' = IF op = "assign_students_to_mentors" THEN <<Outcome>> ELSE earlier
    /\ UNCHANGED << cfg, students, mentors, mentor_to_remove >>

\* Lines 266-279: one iteration of the loop over the candidate mentors
AddFill ==
    /\ pc = "fill"
    /\ current_mentor_index < Len(candidates)
    /\ unassigned_students # <<>>
    /\ LET mi == candidates[current_mentor_index + 1][1]
           available_slots == candidates[current_mentor_index + 1][2]
           can_assign == Min2(available_slots, Len(unassigned_students))
           r == AssignEach(new_students, mentors[mi],
                           Slice(unassigned_students, 0, can_assign),
                           assigned_students)
       IN  /\ new_students' = r.new_students
           /\ mentors' = [mentors EXCEPT ![mi] = r.mentor]
           /\ assigned_students' = r.assigned
           /\ IF r.raised
              THEN /\ error' = <<CannotAccept(mentors[mi].faculty_id)>>
                   /\ pc' = "raised"
                   /\ UNCHANGED unassigned_students
              ELSE /\ unassigned_students' =
                        Slice(unassigned_students, can_assign, Len(unassigned_students))
                   /\ UNCHANGED << error, pc >>
    /\ current_mentor_index' = current_mentor_index + 1
    /\ UNCHANGED << cfg, students, plan, op, pre, order, available_mentors,
                    assignments, batch_num, candidates, all_students, summary,
                    stats, earlier, mentor_to_remove >>

\* Variant: the assignments are numbered in the order they are created
extract_current_assignments_Renumbered(ms, i) ==
    LET holders == SelectSeq([j \in 1..Len(ms) |-> j],
                             LAMBDA j : j >= i /\ ms[j].assigned_students # <<>>)
    IN  [k \in 1..Len(holders) |->
            Assignment(ms[holders[k]].faculty_id, ms[holders[k]].assigned_students, k)]

\* _extract_current_assignments: one Assignment per mentor holding students
RECURSIVE extract_current_assignments(_, _)
extract_current_assignments(ms, i) ==
    IF i > Len(ms) THEN <<>>
    ELSE (IF ms[i].assigned_students # <<>>
          THEN <<Assignment(ms[i].faculty_id, ms[i].assigned_students, i)>>
          ELSE <<>>)
         \o extract_current_assignments(ms, i + 1)

\* Line 282: the overflow goes to the first available mentor
OverloadApplies(unassigned, c) == unassigned # <<>> /\ c.allow_mentor_overload

\* Variant: the students left unassigned are not returned
CombineStudents_AssignedOnly(existing, assigned, unassigned) == existing \o assigned

\* Line 298: existing_students + assigned_students + unassigned_students
CombineStudents(existing, assigned, unassigned) == existing \o assigned \o unassigned

\* Lines 281-304: the overload step, the combined collection, the summary
AddFinish ==
    /\ pc = "fill"
    /\ current_mentor_index >= Len(candidates) \/ unassigned_students = <<>>
    /\ LET overload == OverloadApplies(unassigned_students, cfg)
                          /\ AvailableMentors(mentors) # <<>>
           mi == IF overload THEN AvailableMentors(mentors)[1] ELSE 0
           r == IF overload
                THEN AssignEach(new_students, mentors[mi], unassigned_students,
                                assigned_students)
                ELSE [new_students |-> new_students, mentor |-> <<>>,
                      assigned |-> assigned_students, raised |-> FALSE]
           left == IF overload THEN <<>> ELSE unassigned_students
       IN  /\ new_students' = r.new_students
           /\ mentors' = IF overload THEN [mentors EXCEPT ![mi] = r.mentor] ELSE mentors
           /\ assigned_students' = r.assigned
           /\ IF r.raised
              THEN /\ error' = <<CannotAccept(mentors[mi].faculty_id)>>
                   /\ pc' = "raised"
                   /\ UNCHANGED << unassigned_students, all_students, assignments,
                                   summary >>
              ELSE /\ unassigned_students' = left
                   /\ all_students' = CombineStudents(students,
                                                       Objects(new_students', r.assigned),
                                                       Objects(new_students', left))
                   /\ assignments' = extract_current_assignments(mentors', 1)
                   /\ summary' = <<create_assignment_summary(
                                        all_students', mentors', assignments',
                                        Objects(new_students', left))>>
                   /\ pc' = "done"
                   /\ UNCHANGED error
    /\ UNCHANGED << cfg, students, plan, op, pre, order, available_mentors,
                    batch_num, current_mentor_index, candidates, stats, earlier,
                    mentor_to_remove >>

(***************************************************************************)
(* get_assignment_statistics                                               *)
(***************************************************************************)
\* round(p / q, 0) for p >= 0, q > 0: to the nearest integer, a tie to the
\* even one
RoundHalfEven(p, q) ==
    LET f == p \div q
        rem == p % q
    IN  IF 2 * rem < q THEN f
        ELSE IF 2 * rem > q THEN f + 1
        ELSE IF f % 2 = 0 THEN f ELSE f + 1

\* round(p / q, 2), kept in hundredths
Round2(p, q) == RoundHalfEven(100 * p, q)

\* Variant: a summary without students counts as fully assigned
assignment_efficiency_FullWhenEmpty(total_students, unassigned_count) ==
    IF total_students > 0
    THEN Round2((total_students - unassigned_count) * 100, total_students)
    ELSE 100 * 100

\* Line 332: the share of the students that are assigned, in percent
assignment_efficiency(total_students, unassigned_count) ==
    IF total_students > 0
    THEN Round2((total_students - unassigned_count) * 100, total_students)
    ELSE 0

\* Line 333: assignments per mentor, in percent
mentor_utilization(total_assignments, total_mentors) ==
    IF total_mentors > 0 THEN Round2(total_assignments * 100, total_mentors) ELSE 0

\* min(xs), max(xs) of a non-empty list of roll numbers
MinOf(xs) == CHOOSE x \in Range(xs) : \A y \in Range(xs) : x <= y

MaxOf(xs) == CHOOSE x \in Range(xs) : \A y \in Range(xs) : y <= x

\* Lines 338-344: one entry of batch_details; the roll range is <<min, max>>,
\* or <<>> for "N/A"
batch_info(assignment) ==
    [ batch_number |-> assignment.batch_number,
      mentor_id |-> assignment.mentor_id,
      student_count |-> Len(assignment.student_roll_numbers),
      student_roll_range |->
          IF assignment.student_roll_numbers # <<>>
          THEN << MinOf(assignment.student_roll_numbers),
                  MaxOf(assignment.student_roll_numbers) >>
          ELSE <<>> ]

\* get_assignment_statistics: the dictionary returned
get_assignment_statistics(s) ==
    [ total_students |-> s.total_students,
      total_mentors |-> s.total_mentors,
      total_assignments |-> s.total_assignments,
      students_per_mentor_avg |->
          Round2(s.students_per_mentor_avg[1], s.students_per_mentor_avg[2]),
      unassigned_count |-> Len(s.unassigned_students),
      assignment_efficiency |->
          assignment_efficiency(s.total_students, Len(s.unassigned_students)),
      mentor_utilization |-> mentor_utilization(s.total_assignments, s.total_mentors),
      batch_details |-> [k \in 1..Len(s.assignments) |-> batch_info(s.assignments[k])] ]

\* The caller asks for the statistics of the summary it was returned
\* (main.py: display_assignment_results), here up to twice
GetStatistics ==
    /\ pc = "done"
    /\ Len(stats) < 2
    /\ stats' = Append(stats, get_assignment_statistics(summary[1]))
    /\ UNCHANGED << cfg, students, mentors, new_students, plan, pc, op, pre, order,
                    available_mentors, assignments, unassigned_students, batch_num,
                    current_mentor_index, add_frame, summary, error, earlier,
                    mentor_to_remove >>

(***************************************************************************)
(* The caller between two runs.                                            *)
(***************************************************************************)
\* tests/test_assignment_system.py, setUp: the collections are built anew,
\* equal to the ones the run before was given
setUp ==
    /\ pc \in {"done", "raised"}
    /\ plan # <<>>
    /\ Head(plan) = "setUp"
    /\ plan' = Tail(plan)
    /\ earlier' = <<Outcome>>
    /\ students' = pre[1].students
    /\ mentors' = pre[1].mentors
    /\ pc' = "idle"
    /\ op' = None
    /\ pre' = <<>>
    /\ summary' = <<>>
    /\ error' = <<>>
    /\ stats' = <<>>
    /\ UNCHANGED << cfg, new_students, order, available_mentors, assignments,
                    unassigned_students, batch_num, current_mentor_index, add_frame,
                    mentor_to_remove >>

\* The caller runs the engine again over the first k of its students
\* (the same Student objects) and the same mentors
Sublist ==
    /\ pc = "done"
    /\ plan # <<>>
    /\ Head(plan) = "sublist"
    /\ plan' = Tail(plan)
    /\ \E k \in 1..(Len(students) - 1) : students' = SubSeq(students, 1, k)
    /\ earlier' = <<Outcome>>
    /\ pc' = "idle"
    /\ op' = None
    /\ pre' = <<>>
    /\ summary' = <<>>
    /\ error' = <<>>
    /\ stats' = <<>>
    /\ UNCHANGED << cfg, mentors, new_students, order, available_mentors, assignments,
                    unassigned_students, batch_num, current_mentor_index, add_frame,
                    mentor_to_remove >>

(***************************************************************************)
(* reassign_students                                                       *)
(***************************************************************************)
\* Lines 220-227: the first mentor with that faculty_id is made unavailable
\* and loses its students
RemoveMentor(ms, fid) ==
    LET hits == { i \in DOMAIN ms : ms[i].faculty_id = fid }
    IN  IF fid = None \/ hits = {}
        THEN ms
        ELSE LET first == CHOOSE i \in hits : \A j \in hits : i <= j
             IN  [ms EXCEPT ![first].availability = FALSE,
                            ![first].assigned_students = <<>>]

\* Lines 230-231: for student in students: student.assigned_mentor_id = None
ClearStudents(ss) == [i \in 1..Len(ss) |-> [ss[i] EXCEPT !.assigned_mentor_id = None]]

\* Lines 233-234: for mentor in mentors: mentor.assigned_students = []
ClearMentors(ms) == [i \in 1..Len(ms) |-> [ms[i] EXCEPT !.assigned_students = <<>>]]

\* The mentor_to_remove arguments: none, a mentor of the list, an unknown id
RemovalChoices(ms) ==
    {None, FacultyIds[Len(FacultyIds)]} \cup { ms[i].faculty_id : i \in DOMAIN ms }

\* Lines 215-237: the removal, the clearing, then the new assignment run
ReassignBegin ==
    /\ pc \in {"idle", "done", "raised"}
    /\ plan # <<>>
    /\ Head(plan) = "reassign_students"
    /\ plan' = Tail(plan)
    /\ op' = "reassign_students"
    /\ pre' = <<Snapshot(students, mentors, new_students)>>
    /\ \E fid \in RemovalChoices(mentors) :
        /\ mentor_to_remove' = fid
        /\ EnterAssignment(ClearStudents(students),
                           ClearMentors(RemoveMentor(mentors, fid)))

Next ==
    \/ Sublist
    \/ ReassignBegin
    \/ AssignBegin
    \/ BatchStep
    \/ HandleRemainder
    \/ AddBegin
    \/ AddFill
    \/ AddFinish
    \/ GetStatistics
    \/ setUp

Spec == Init /\ [][Next]_vars

(***************************************************************************)
(* Vocabulary of the properties.                                           *)
(***************************************************************************)
AssignCalled == op = "assign_students_to_mentors"

AddCalled == op = "add_new_students"

Returned == pc = "done"

Raised == pc = "raised"

\* the arguments of the call in progress, as they were passed
Given == pre[1]

TheSummary == summary[1]

AssignmentSizes(assigns) ==
    [k \in 1..Len(assigns) |-> Len(assigns[k].student_roll_numbers)]

\* ceil(n / b), by its defining inequalities
Ceil(n, b) == CHOOSE k \in 0..n : k * b >= n /\ (k = 0 \/ (k - 1) * b < n)

NumAvailable(ms) == Cardinality({ i \in DOMAIN ms : ms[i].availability })

\* the roll numbers from..to, in order
Rolls(from, to) == [k \in 1..(to - from + 1) |-> from + k - 1]

\* the run of the documented example with n students and m default mentors
Example(n, m) ==
    /\ AssignCalled
    /\ cfg = DefaultConfig
    /\ Len(Given.students) = n
    /\ Len(Given.mentors) = m

\* the remainder step is being taken
RemainderStep == AssignCalled /\ pc = "batches" /\ pc' = "done"

\* the roll numbers of the n mod B students at the tail of the working order
TailRolls ==
    LET n == Len(order)
        r == n % cfg.BATCH_SIZE
    IN  [k \in 1..r |-> students[order[n - r + k]].roll_no]

(***************************************************************************)
(* C1: a successful assign_students_to_mentors run over n > 0 students     *)
(* returns a summary in which the sizes of all assignments plus the number *)
(* of unassigned students add up to n.                                     *)
(***************************************************************************)
C1_Conservation ==
    (AssignCalled /\ Returned) =>
        /\ Len(Given.students) > 0
        /\ SumSeq(AssignmentSizes(TheSummary.assignments))
             + Len(TheSummary.unassigned_students) = Len(Given.students)

\* a run with enough mentors that assigned some students and left some out
C1_Witness ==
    /\ AssignCalled /\ Returned
    /\ NumAvailable(Given.mentors) >= Ceil(Len(Given.students), cfg.BATCH_SIZE)
    /\ TheSummary.assignments # <<>>
    /\ TheSummary.unassigned_students # <<>>

(***************************************************************************)
(* C2: after a successful run with allow_mentor_overload disabled, every   *)
(* mentor holds at most max_students students.                             *)
(***************************************************************************)
C2_CapacityInvariant ==
    (AssignCalled /\ Returned /\ ~cfg.allow_mentor_overload) =>
        \A i \in DOMAIN mentors :
            Len(mentors[i].assigned_students) <= mentors[i].max_students

(***************************************************************************)
(* C3: when 0 < n mod B <= remainder_threshold, an assignment exists and   *)
(* the fold is permitted, the remainder students are appended to the last  *)
(* created Assignment and no Assignment is added; 64 students, 3 mentors   *)
(* of capacity 30 and the default configuration give 30 students to        *)
(* mentor 1, 34 to mentor 2, none to mentor 3 and nobody unassigned.       *)
(***************************************************************************)
C3_FoldStep ==
    LET r == Len(order) % cfg.BATCH_SIZE
        last == Len(assignments)
    IN  (/\ RemainderStep
         /\ 0 < r /\ r <= cfg.remainder_threshold
         /\ assignments # <<>>
         /\ \/ cfg.allow_mentor_overload
            \/ \A i \in DOMAIN mentors :
                 mentors[i].faculty_id = assignments[last].mentor_id =>
                    Len(assignments[last].student_roll_numbers) + r
                        <= mentors[i].max_students)
        => /\ Len(assignments') = last
           /\ \A k \in 1..(last - 1) : assignments'[k] = assignments[k]
           /\ assignments'[last].mentor_id = assignments[last].mentor_id
           /\ assignments'[last].batch_number = assignments[last].batch_number
           /\ assignments'[last].student_roll_numbers
                = assignments[last].student_roll_numbers \o TailRolls
           /\ unassigned_students' = unassigned_students

C3_Example ==
    (Example(64, 3) /\ Returned) =>
        /\ TheSummary.assignments
             = << Assignment(FacultyIds[1], Rolls(1, 30), 1),
                  Assignment(FacultyIds[2], Rolls(31, 64), 2) >>
        /\ mentors[1].assigned_students = Rolls(1, 30)
        /\ mentors[2].assigned_students = Rolls(31, 64)
        /\ mentors[3].assigned_students = <<>>
        /\ TheSummary.unassigned_students = <<>>

C4_NewBatchStep ==
    LET n == Len(order)
        r == n % cfg.BATCH_SIZE
    IN  (RemainderStep /\ r > cfg.remainder_threshold)
        => IF current_mentor_index < Len(available_mentors)
           THEN /\ assignments' =
                     Append(assignments,
                            [ mentor_id |->
                                mentors[available_mentors[current_mentor_index + 1]].faculty_id,
                              student_roll_numbers |-> TailRolls,
                              batch_number |-> (n \div cfg.BATCH_SIZE) + 1 ])
                /\ Len(assignments'[Len(assignments')].student_roll_numbers) = r
                /\ unassigned_students' = unassigned_students
           ELSE /\ assignments' = assignments
                /\ unassigned_students'
                     = unassigned_students \o SubSeq(order, n - r + 1, n)

C4_Example ==
    (Example(73, 3) /\ Returned) =>
        /\ Len(TheSummary.assignments) = 3
        /\ TheSummary.assignments[3] = Assignment(FacultyIds[3], Rolls(61, 73), 3)

C4_RemainderBatch == [][C4_NewBatchStep]_vars /\ []C4_Example

\* 73 students: the third assignment holds the 13 remainder students
C4_Witness ==
    /\ Example(73, 3) /\ Returned
    /\ Len(TheSummary.assignments) = 3
    /\ Len(TheSummary.assignments[3].student_roll_numbers) = 13

(***************************************************************************)
(* C5: 64 students and 3 available mentors at batch size 30 give           *)
(* total_assignments = 3 with sizes 30, 30 and 4                           *)
(* (tests/test_assignment_system.py, test_basic_assignment).               *)
(***************************************************************************)
C5_TestBasicAssignment ==
    (Example(64, 3) /\ pc \in {"done", "raised"}) =>
        /\ Returned
        /\ TheSummary.total_assignments = 3
        /\ AssignmentSizes(TheSummary.assignments) = <<30, 30, 4>>

(***************************************************************************)
(* C6: 100 students and a single mentor of capacity 30 under the default   *)
(* configuration: the call does not fail and returns an AssignmentSummary  *)
(* (test_assignment_with_insufficient_mentors).                            *)
(***************************************************************************)
C6_InsufficientMentorsHandled ==
    (Example(100, 1) /\ pc \in {"done", "raised"}) =>
        /\ Returned
        /\ summary # <<>>

C8_OverloadWarningNotBlocking ==
    LET f == validate_assignment_feasibility(Given.students, Given.mentors, cfg)
    IN  (/\ AssignCalled
         /\ cfg.allow_mentor_overload
         /\ Len(Given.students) > TotalCapacity(Given.mentors)
         /\ f.errors = <<>>
         /\ StudentIssues(Given.students, 1) = <<>>
         /\ MentorIssues(Given.mentors, 1) = <<>>)
        => /\ validate_data_consistency(Given.students, Given.mentors, cfg).ok
           /\ ~Raised

(***************************************************************************)
(* C9: add_new_students fails, naming the offending roll number, whenever  *)
(* a new student's roll number equals an existing student's, and then no   *)
(* existing or new Student and no Mentor has been mutated.                 *)
(***************************************************************************)
CollidingRolls(existing, ns) ==
    { ns[i].roll_no : i \in DOMAIN ns } \cap { existing[j].roll_no : j \in DOMAIN existing }

C9_DuplicateRejected ==
    (AddCalled /\ CollidingRolls(Given.students, Given.new_students) # {}) =>
        /\ Raised
        /\ error[1].message = "Student with roll number already exists"
        /\ error[1].detail[1] \in CollidingRolls(Given.students, Given.new_students)
        /\ students = Given.students
        /\ mentors = Given.mentors
        /\ new_students = Given.new_students
        /\ summary = <<>>

\* the call was rejected for its last new student, with room at a mentor
C9_Witness ==
    /\ AddCalled /\ Raised
    /\ Len(Given.new_students) >= 2
    /\ CollidingRolls(Given.students, Given.new_students)
         = { Given.new_students[Len(Given.new_students)].roll_no }
    /\ \E i \in DOMAIN mentors : can_accept_students(mentors[i])

(***************************************************************************)
(* C10: in add_new_students, when new students are left over once every    *)
(* mentor with free slots has been filled and allow_mentor_overload is     *)
(* enabled, the call succeeds, the first available mentor receives every   *)
(* remaining roll number and the summary lists no unassigned student.      *)
(***************************************************************************)
FreeSlots(ms) ==
    SumSeq([i \in 1..Len(ms) |->
                IF ms[i].availability THEN get_available_slots(ms[i]) ELSE 0])

C10_OverloadAbsorbsOverflow ==
    (/\ AddCalled /\ pc \in {"done", "raised"}
     /\ cfg.allow_mentor_overload
     /\ CollidingRolls(Given.students, Given.new_students) = {}
     /\ NumAvailable(Given.mentors) > 0
     /\ Len(Given.new_students) > FreeSlots(Given.mentors))
    => /\ Returned
       /\ TheSummary.unassigned_students = <<>>
       /\ \A i \in DOMAIN new_students :
            new_students[i].assigned_mentor_id # None
       /\ \E f \in DOMAIN mentors :
            /\ mentors[f].availability
            /\ \A g \in 1..(f - 1) : ~mentors[g].availability
            /\ Len(mentors[f].assigned_students) > mentors[f].max_students

C12_AllViolationsReported ==
    AssignCalled =>
        \A i \in DOMAIN Given.students :
            LET d == Given.students[i]
                errs == validate_student(d)
            IN  (/\ Falsy(d.branch)
                 /\ ~validate_roll_number(d.roll_no)
                 /\ ~validate_year(d.year))
                => /\ "Missing required field: branch" \in Range(errs)
                   /\ "Roll number is out of valid range" \in Range(errs)
                   /\ "Year is not valid" \in Range(errs)
                   /\ \A e \in Range(errs) :
                        <<"Student", d.roll_no, e>> \in Range(error[1].detail)

(***************************************************************************)
(* C13: a successful add_new_students returns a student collection made of *)
(* every existing student followed by every new student, each exactly      *)
(* once, in which each new student is assigned to a mentor or listed in    *)
(* the summary's unassigned_students.                                      *)
(***************************************************************************)
Occurrences(s, x) == Cardinality({ k \in DOMAIN s : s[k] = x })

C13_AddReturnsEveryone ==
    (AddCalled /\ Returned) =>
        LET n == Len(Given.students)
            tail == SubSeq(all_students, n + 1, Len(all_students))
        IN  /\ Len(all_students) = n + Len(Given.new_students)
            /\ SubSeq(all_students, 1, n) = Given.students
            /\ \A i \in DOMAIN new_students :
                    Occurrences(tail, new_students[i])
                        = Occurrences(new_students, new_students[i])
            /\ \A i \in DOMAIN new_students :
                    \/ \E j \in DOMAIN mentors :
                            /\ new_students[i].assigned_mentor_id = mentors[j].faculty_id
                            /\ new_students[i].roll_no \in Range(mentors[j].assigned_students)
                    \/ new_students[i].roll_no \in Range(TheSummary.unassigned_students)

\* some new students found a mentor, the others are returned unassigned
C13_Witness ==
    /\ AddCalled /\ Returned
    /\ Given.students # <<>>
    /\ \E i \in DOMAIN new_students : new_students[i].assigned_mentor_id # None
    /\ \E i \in DOMAIN new_students : new_students[i].assigned_mentor_id = None
    /\ TheSummary.unassigned_students # <<>>

(***************************************************************************)
(* C14: validate_assignment_feasibility fails for an empty student         *)
(* collection, an empty mentor collection, two students with one roll      *)
(* number and two mentors with one faculty_id, and each of these makes     *)
(* assign_students_to_mentors raise with nothing assigned.                 *)
(***************************************************************************)
C14_EmptyOrDuplicateBlocks ==
    AssignCalled =>
        LET ss == Given.students
            ms == Given.mentors
            f == validate_assignment_feasibility(ss, ms, cfg)
            bad == \/ ss = <<>>
                   \/ ms = <<>>
                   \/ \E i, j \in DOMAIN ss : i # j /\ ss[i].roll_no = ss[j].roll_no
                   \/ \E i, j \in DOMAIN ms : i # j /\ ms[i].faculty_id = ms[j].faculty_id
        IN  bad => /\ ~f.ok
                   /\ f.errors # <<>>
                   /\ Raised
                   /\ error[1].message = "Data validation failed"
                   /\ Range(f.errors) \subseteq Range(error[1].detail)
                   /\ assignments = <<>>
                   /\ summary = <<>>
                   /\ students = ss
                   /\ mentors = ms

\* a run refused only because two students far apart share a roll number
C14_Witness ==
    /\ AssignCalled /\ Raised
    /\ Len(Given.students) > 2
    /\ error[1].detail = <<"Duplicate roll numbers found in student list">>

(***************************************************************************)
(* C15: get_assignment_statistics leaves the AssignmentSummary as it was,  *)
(* two applications to one summary return equal values,                    *)
(* assignment_efficiency is 0 when total_students is 0 and                 *)
(* mentor_utilization is 0 when total_mentors is 0.                        *)
(***************************************************************************)
C15_StatisticsStep == (stats' # stats /\ stats' # <<>>) => summary' = summary

C15_StatisticsValues ==
    /\ \A k \in DOMAIN stats :
         /\ stats[k].total_students = TheSummary.total_students
         /\ stats[k].total_mentors = TheSummary.total_mentors
         /\ TheSummary.total_students = 0 => stats[k].assignment_efficiency = 0
         /\ TheSummary.total_mentors = 0 => stats[k].mentor_utilization = 0
    /\ Len(stats) = 2 => stats[1] = stats[2]

C16_FoldStep ==
    LET n == Len(order)
        r == n % cfg.BATCH_SIZE
        last == Len(assignments)
    IN  (/\ RemainderStep
         /\ 0 < r /\ r <= cfg.remainder_threshold
         /\ assignments # <<>>
         /\ ~cfg.allow_mentor_overload
         /\ \E i \in DOMAIN mentors :
                /\ mentors[i].faculty_id = assignments[last].mentor_id
                /\ Len(mentors[i].assigned_students) + r > mentors[i].max_students)
        => /\ assignments' = assignments
           /\ mentors' = mentors
           /\ students' = students
           /\ unassigned_students' = unassigned_students \o SubSeq(order, n - r + 1, n)

C16_FoldAllOrNothing == [][C16_FoldStep]_vars

C19_BatchToCursorMentor ==
    (AssignCalled /\ pc \in {"batches", "done"}) =>
        LET m == Len(available_mentors)
            B == cfg.BATCH_SIZE
        IN  /\ \A b \in 0..(batch_num - 1) :
                    (b < m \/ cfg.wrap_around_mentors) =>
                        LET mi == available_mentors[(b % m) + 1]
                            batch == [k \in 1..B |-> students[order[b * B + k]]]
                        IN  /\ Len(assignments) >= b + 1
                            /\ assignments[b + 1].batch_number = b + 1
                            /\ assignments[b + 1].mentor_id = mentors[mi].faculty_id
                            /\ SubSeq(assignments[b + 1].student_roll_numbers, 1, B)
                                 = [k \in 1..B |-> batch[k].roll_no]
                            /\ \A k \in 1..B :
                                 /\ batch[k].assigned_mentor_id = mentors[mi].faculty_id
                                 /\ batch[k].roll_no \in Range(mentors[mi].assigned_students)
            /\ ~cfg.wrap_around_mentors =>
                    \A j, k \in DOMAIN assignments :
                        j # k => assignments[j].mentor_id # assignments[k].mentor_id

\* the cursor wrapped: more complete batches than available mentors
C19_Witness ==
    /\ AssignCalled /\ Returned
    /\ cfg.wrap_around_mentors
    /\ Len(available_mentors) >= 2
    /\ Len(assignments) > Len(available_mentors)
    /\ assignments[1].mentor_id = assignments[Len(available_mentors) + 1].mentor_id

(***************************************************************************)
(* C20: a validation or feasibility error, or the lack of an available     *)
(* mentor, makes assign_students_to_mentors fail, and a failed call has    *)
(* changed no Student.assigned_mentor_id and no Mentor.assigned_students   *)
(* and produced no summary.                                                *)
(***************************************************************************)
C20_FailsBeforeMutation ==
    AssignCalled =>
        LET ss == Given.students
            ms == Given.mentors
            flawed == \/ StudentIssues(ss, 1) # <<>>
                      \/ MentorIssues(ms, 1) # <<>>
                      \/ validate_assignment_feasibility(ss, ms, cfg).errors # <<>>
                      \/ AvailableMentors(ms) = <<>>
        IN  /\ flawed => Raised
            /\ Raised =>
                /\ students = ss
                /\ mentors = ms
                /\ \A i \in DOMAIN students :
                        students[i].assigned_mentor_id = ss[i].assigned_mentor_id
                /\ \A i \in DOMAIN mentors :
                        mentors[i].assigned_students = ms[i].assigned_students
                /\ assignments = <<>>
                /\ summary = <<>>

\* a refused run over students and mentors that carry earlier assignments
C20_Witness ==
    /\ AssignCalled /\ Raised
    /\ \E i \in DOMAIN students : students[i].assigned_mentor_id # None
    /\ \E i \in DOMAIN mentors : mentors[i].assigned_students # <<>>

(***************************************************************************)
(* C21: after a successful assign_students_to_mentors run every available  *)
(* mentor's assigned_students is exactly the roll numbers this run gave    *)
(* it, whatever it held before, and every unavailable mentor's             *)
(* assigned_students is what it was.                                       *)
(***************************************************************************)
RECURSIVE RollsOf(_, _)
RollsOf(assigns, fid) ==
    IF assigns = <<>> THEN <<>>
    ELSE (IF Head(assigns).mentor_id = fid
          THEN Head(assigns).student_roll_numbers ELSE <<>>)
         \o RollsOf(Tail(assigns), fid)

C21_DestructiveReset ==
    (AssignCalled /\ Returned) =>
        \A i \in DOMAIN mentors :
            IF Given.mentors[i].availability
            THEN mentors[i].assigned_students
                    = RollsOf(TheSummary.assignments, mentors[i].faculty_id)
            ELSE mentors[i].assigned_students = Given.mentors[i].assigned_students

\* an available mentor lost its earlier students, an unavailable one kept them
C21_Witness ==
    /\ AssignCalled /\ Returned
    /\ \E i \in DOMAIN mentors :
            /\ Given.mentors[i].availability
            /\ Given.mentors[i].assigned_students # <<>>
            /\ mentors[i].assigned_students # <<>>
            /\ mentors[i].assigned_students # Given.mentors[i].assigned_students
    /\ \E i \in DOMAIN mentors :
            /\ ~Given.mentors[i].availability
            /\ mentors[i].assigned_students # <<>>

(***************************************************************************)
(* C22: after a sequence of successful assign_students_to_mentors runs     *)
(* over student records that started without a mentor (later runs over     *)
(* sub-lists of them included), every roll number in the latest summary's  *)
(* unassigned_students belongs to a student whose assigned_mentor_id is    *)
(* None.                                                                   *)
(***************************************************************************)
StartedFresh ==
    LET first == IF earlier = <<>> THEN Given.students ELSE earlier[1].given.students
    IN  /\ earlier # <<>> => ~earlier[1].raised
        /\ \A i \in DOMAIN first : first[i].assigned_mentor_id = None

C22_UnassignedHaveNoMentor ==
    (AssignCalled /\ Returned /\ StartedFresh) =>
        \A i \in DOMAIN students :
            students[i].roll_no \in Range(TheSummary.unassigned_students)
                => students[i].assigned_mentor_id = None

(***************************************************************************)
(* C23: add_new_students visits the mentors that are available and have    *)
(* available slots, in ascending order of slots (ties in mentor-list       *)
(* order), and gives each min(slots, students still unassigned) students   *)
(* from the front of the queue; no mentor within capacity before the call  *)
(* holds more than max_students after a successful one.                    *)
(***************************************************************************)
C23_FillStep ==
    (AddCalled /\ pc = "fill" /\ current_mentor_index' = current_mentor_index + 1) =>
        LET mi == candidates[current_mentor_index + 1][1]
            take == Min2(get_available_slots(Given.mentors[mi]), Len(unassigned_students))
            served == SubSeq(unassigned_students, 1, take)
        IN  /\ pc' = "fill"
            /\ Given.mentors[mi].availability
            /\ get_available_slots(Given.mentors[mi]) > 0
            /\ mentors[mi] = Given.mentors[mi]
            /\ take > 0
            /\ unassigned_students'
                 = SubSeq(unassigned_students, take + 1, Len(unassigned_students))
            /\ assigned_students' = assigned_students \o served
            /\ \A k \in DOMAIN served :
                    /\ new_students'[served[k]].assigned_mentor_id = mentors[mi].faculty_id
                    /\ new_students[served[k]].roll_no
                            \in Range(mentors'[mi].assigned_students)
            /\ \A j \in DOMAIN mentors : j # mi => mentors'[j] = mentors[j]

C23_Candidates ==
    /\ (AddCalled /\ pc = "fill") =>
        /\ { candidates[k][1] : k \in DOMAIN candidates }
             = { i \in DOMAIN Given.mentors :
                    /\ Given.mentors[i].availability
                    /\ get_available_slots(Given.mentors[i]) > 0 }
        /\ \A k \in DOMAIN candidates :
                candidates[k][2] = get_available_slots(Given.mentors[candidates[k][1]])
        /\ \A k \in 1..(Len(candidates) - 1) :
                \/ candidates[k][2] < candidates[k + 1][2]
                \/ /\ candidates[k][2] = candidates[k + 1][2]
                   /\ candidates[k][1] < candidates[k + 1][1]
    /\ (AddCalled /\ Returned) =>
        \A i \in DOMAIN mentors :
            Len(Given.mentors[i].assigned_students) <= mentors[i].max_students
                => Len(mentors[i].assigned_students) <= mentors[i].max_students

C24_OneAssignmentPerHolder ==
    (AddCalled /\ Returned) =>
        LET A == TheSummary.assignments
        IN  /\ \A k \in DOMAIN A : A[k].batch_number \in DOMAIN mentors
            /\ \A i \in DOMAIN mentors :
                    LET mine == { k \in DOMAIN A : A[k].batch_number = i }
                    IN  IF mentors[i].assigned_students # <<>>
                        THEN /\ Cardinality(mine) = 1
                             /\ \A k \in mine :
                                    /\ A[k].mentor_id = mentors[i].faculty_id
                                    /\ A[k].student_roll_numbers
                                            = mentors[i].assigned_students
                        ELSE /\ mine = {}
                             /\ \A k \in DOMAIN A :
                                    A[k].mentor_id # mentors[i].faculty_id

\* the first mentor holds nobody, an unavailable one has its Assignment
C24_Witness ==
    /\ AddCalled /\ Returned
    /\ Len(mentors) >= 2
    /\ mentors[1].assigned_students = <<>>
    /\ TheSummary.assignments # <<>>
    /\ TheSummary.assignments[1].batch_number = 2
    /\ ~mentors[2].availability

(***************************************************************************)
(* C25: in every summary produced by assign_students_to_mentors or         *)
(* add_new_students each Assignment has a non-empty mentor_id, a non-empty *)
(* roll-number list and batch_number >= 1, and the batch numbers strictly  *)
(* increase along the assignments sequence.                                *)
(***************************************************************************)
C25_AssignmentsWellFormed ==
    Returned =>
        LET A == TheSummary.assignments
        IN  /\ \A k \in DOMAIN A :
                    /\ A[k].mentor_id # None
                    /\ Strip(A[k].mentor_id) # ""
                    /\ A[k].student_roll_numbers # <<>>
                    /\ A[k].batch_number >= 1
            /\ \A k \in 1..(Len(A) - 1) : A[k].batch_number < A[k + 1].batch_number

\* a summary of add_new_students with several assignments
C25_Witness ==
    /\ AddCalled /\ Returned
    /\ Len(TheSummary.assignments) >= 2
    /\ TheSummary.assignments[1].batch_number = 1

(***************************************************************************)
(* C26: in every returned assign_students_to_mentors run, wrap-around on   *)
(* or off, run directly or through reassign_students, the summary's        *)
(* unassigned_students is either empty or exactly the roll numbers of the  *)
(* n mod BATCH_SIZE students at the tail of the working order: a complete  *)
(* batch is never left unassigned.                                         *)
(***************************************************************************)
AssignRan == op \in {"assign_students_to_mentors", "reassign_students"}

RECURSIVE AllRolls(_)
AllRolls(assigns) ==
    IF assigns = <<>> THEN <<>>
    ELSE Head(assigns).student_roll_numbers \o AllRolls(Tail(assigns))

C27_SortedPartition ==
    (AssignRan /\ Returned /\ cfg.sort_by_roll_number) =>
        LET out == AllRolls(TheSummary.assignments) \o TheSummary.unassigned_students
        IN  /\ Len(out) = Len(Given.students)
            /\ \A k \in 1..(Len(out) - 1) : out[k] < out[k + 1]
            /\ \A i \in DOMAIN Given.students :
                    Occurrences(out, Given.students[i].roll_no) = 1

\* the students came in descending order and were spread over two mentors
C27_Witness ==
    /\ AssignRan /\ Returned /\ cfg.sort_by_roll_number
    /\ Len(Given.students) >= 3
    /\ \A i \in 1..(Len(Given.students) - 1) :
            Given.students[i].roll_no > Given.students[i + 1].roll_no
    /\ Len(TheSummary.assignments) >= 2

(***************************************************************************)
(* C28: after a returned assign_students_to_mentors run that started with  *)
(* every student unassigned and every mentor available, the three views    *)
(* agree: a student's assigned_mentor_id is f exactly when its roll number *)
(* is in mentor f's assigned_students, exactly when it is in an Assignment *)
(* whose mentor_id is f; and each mentor's assigned_students is the        *)
(* concatenation, in order, of the roll lists of its Assignments.          *)
(***************************************************************************)
CleanStart ==
    /\ \A i \in DOMAIN Given.students : Given.students[i].assigned_mentor_id = None
    /\ \A j \in DOMAIN Given.mentors : Given.mentors[j].availability

C28_ViewsAgree ==
    (AssignCalled /\ Returned /\ CleanStart) =>
        /\ \A i \in DOMAIN students :
                /\ students[i].assigned_mentor_id \in
                        {None} \cup { mentors[j].faculty_id : j \in DOMAIN mentors }
                /\ \A j \in DOMAIN mentors :
                        LET f == mentors[j].faculty_id
                            marked == students[i].assigned_mentor_id = f
                            held == students[i].roll_no
                                        \in Range(mentors[j].assigned_students)
                            listed == \E k \in DOMAIN TheSummary.assignments :
                                        /\ TheSummary.assignments[k].mentor_id = f
                                        /\ students[i].roll_no \in
                                             Range(TheSummary.assignments[k]
                                                        .student_roll_numbers)
                        IN  (marked <=> held) /\ (held <=> listed)
        /\ \A j \in DOMAIN mentors :
                mentors[j].assigned_students
                    = RollsOf(TheSummary.assignments, mentors[j].faculty_id)

\* wrap-around gave one mentor two batches and the remainder was folded in
C28_Witness ==
    /\ AssignCalled /\ Returned /\ CleanStart
    /\ \E j \in DOMAIN mentors :
            Cardinality({ k \in DOMAIN TheSummary.assignments :
                            TheSummary.assignments[k].mentor_id
                                = mentors[j].faculty_id }) >= 2
    /\ Len(TheSummary.assignments) < complete_batches + 1
    /\ remainder_students_count > 0
    /\ TheSummary.unassigned_students = <<>>

(***************************************************************************)
(* C29: for an add_new_students call made on the students and mentors left *)
(* by a returned assign_students_to_mentors run, the summary returned is   *)
(* self-consistent: total_students is the sum of the sizes of its          *)
(* assignments plus the number of its unassigned_students, and             *)
(* total_assignments is the length of its assignments sequence.            *)
(***************************************************************************)
C29_AddSummaryConsistent ==
    (AddCalled /\ Returned /\ earlier # <<>> /\ ~earlier[1].raised) =>
        /\ TheSummary.total_students
                = SumSeq(AssignmentSizes(TheSummary.assignments))
                    + Len(TheSummary.unassigned_students)
        /\ TheSummary.total_assignments = Len(TheSummary.assignments)

(***************************************************************************)
(* C30: reassign_students is atomic with respect to failure: when the      *)
(* re-run is refused, every student's assigned_mentor_id and every         *)
(* mentor's assigned_students and availability are as they were before     *)
(* the call; when it returns with mentor_to_remove naming a mentor, that   *)
(* mentor is unavailable, holds no students and is in no Assignment of the *)
(* summary.                                                                *)
(***************************************************************************)
\* a reassignment that returned left the mentor it was told to remove out
C30_RemovedMentorIsOut ==
    (op = "reassign_students" /\ Returned) =>
        \A j \in DOMAIN mentors :
            mentors[j].faculty_id = mentor_to_remove =>
                /\ ~mentors[j].availability
                /\ mentors[j].assigned_students = <<>>
                /\ \A k \in DOMAIN TheSummary.assignments :
                        TheSummary.assignments[k].mentor_id # mentor_to_remove

\* a reassignment that was refused left the records as they were
C30_FailureLeavesNoTrace ==
    (op = "reassign_students" /\ Raised) =>
        /\ \A i \in DOMAIN students :
                students[i].assigned_mentor_id = Given.students[i].assigned_mentor_id
        /\ \A j \in DOMAIN mentors :
                /\ mentors[j].assigned_students = Given.mentors[j].assigned_students
                /\ mentors[j].availability = Given.mentors[j].availability

\* C30: reassign_students leaves no trace when the re-run is refused, and
\* leaves the removed mentor unavailable, empty and out of every Assignment
\* when it returns
C30_ReassignAtomic == C30_FailureLeavesNoTrace /\ C30_RemovedMentorIsOut

=============================================================================
